---- MODULE Spec2Model ----
(***************************************************************************)
(* Event broadcast bus (services/sse_manager.py), progress tracker         *)
(* (services/progress.py) and job pipeline (routers/generate.py) of the    *)
(* coding-video-generator server, as a state machine.                      *)
(*                                                                         *)
(* Python objects live in heaps: sse_manager.buffers, .queues and .tasks   *)
(* are sequences of objects, a reference is an index into one of them and  *)
(* 0 is "no object" (a key missing from a dict).  A subscription (one call *)
(* of the async generator SSEManager.subscribe) is a frame in subs; its    *)
(* pc is the suspension point it is parked at.                             *)
(***************************************************************************)
EXTENDS Integers, Sequences, FiniteSets, TLC

\* ------------------------------------------------------------------ bounds
\* config.py sets MAX_BUFFER_LINES = 500 and MAX_LOGS = 50, and subscribe()
\* builds its queue with maxsize=100; the three are scaled down so that
\* eviction and a full queue happen within the explored runs.
MAX_BUFFER_LINES == 2
QUEUE_MAXSIZE == 2
MAX_LOGS == 3
\* config.Timeouts, in seconds
CONTENT_GENERATION == 300
AUDIO_PER_STEP == 60
REMOTION_BUNDLE == 180
VIDEO_RENDER == 600
\* no new broadcast or subscription starts on a buffer whose counter is here
MaxCounter == 5
\* objects ever allocated: JobBuffers, teardown tasks, and two per
\* subscription (its generator frame and its queue)
MaxObjects == 5
\* chunks read from each pipe of the content generator, and progress lines
\* read from the renderer
MaxChunks == 1
MaxRenderLines == 1
\* stream requests served while a pipeline runs
MaxStreams == 1
\* the clock reading up to which tracker operations are called directly
MaxClock == 6

JobIds == {"j1"}

\* ------------------------------------------------------- str() and int()
Digits == <<"0", "1", "2", "3", "4", "5", "6", "7", "8", "9">>

RECURSIVE str(_)
str(n) ==
    IF n < 10 THEN <<Digits[n + 1]>>
    ELSE str(n \div 10) \o <<Digits[(n % 10) + 1]>>

DigitValue(c) == CHOOSE d \in 0..9 : Digits[d + 1] = c

RECURSIVE int(_)
int(s) ==
    IF Len(s) = 1 THEN DigitValue(s[1])
    ELSE 10 * int(SubSeq(s, 1, Len(s) - 1)) + DigitValue(s[Len(s)])

\* The Last-Event-ID header: absent (None) or a string of characters.
NoHeader == [given |-> FALSE, value |-> <<>>]
Header(s) == [given |-> TRUE, value |-> s]
LastEventIds == {NoHeader, Header(str(1)), Header(str(12))}

\* Python truthiness of Optional[str]: None and "" are falsy.
Truthy(h) == h.given /\ h.value # <<>>

\* ------------------------------------------------------------ dataclasses
\* StreamLine without its timestamp; items is the decoded JSON list a
\* history event carries in data (empty for every other event).
StreamLine(id, type, data, items) ==
    [id |-> id, type |-> type, data |-> data, items |-> items]

JobBuffer ==
    [lines |-> <<>>, event_counter |-> 0, is_complete |-> FALSE,
     subscribers |-> {}]

\* The dict a history event lists for one missed line.
HistoryItem(l) == [id |-> l.id, type |-> l.type, data |-> l.data]

\* ------------------------------------------------------------- SSEManager
\* issued, offered, dropped and completed are history fields: per job id
\* every event constructed (with the buffer whose counter numbered it), per
\* queue the lines broadcast offered to it and the ones it lost to
\* QueueFull, and the job ids complete_job has marked complete.
SSEManager ==
    [_jobs |-> [j \in JobIds |-> 0],
     _cleanup_tasks |-> [j \in JobIds |-> 0],
     buffers |-> <<>>,
     queues |-> <<>>,
     tasks |-> <<>>,
     issued |-> [j \in JobIds |-> <<>>],
     offered |-> <<>>,
     dropped |-> <<>>,
     completed |-> {}]

_get_or_create_buffer(m, job_id) ==
    IF m._jobs[job_id] = 0
    THEN [m EXCEPT !.buffers = Append(@, JobBuffer),
                   !._jobs[job_id] = Len(m.buffers) + 1]
    ELSE m

\* mutant of trim: the slice taken from the wrong end (lines[:MAX_BUFFER_LINES])
trim_keeps_oldest(lines) ==
    IF Len(lines) > MAX_BUFFER_LINES
    THEN SubSeq(lines, 1, MAX_BUFFER_LINES)
    ELSE lines

\* buffer.lines[-MAX_BUFFER_LINES:] when the list is too long
trim(lines) ==
    IF Len(lines) > MAX_BUFFER_LINES
    THEN SubSeq(lines, Len(lines) - MAX_BUFFER_LINES + 1, Len(lines))
    ELSE lines

QueueFull(q) == Len(q) >= QUEUE_MAXSIZE

\* mutant of put_nowait: a full queue makes room by losing its oldest line
put_nowait_evicting(q, line) ==
    IF QueueFull(q) THEN Append(Tail(q), line) ELSE Append(q, line)

\* queue.put_nowait(line) with QueueFull swallowed
put_nowait(q, line) == IF QueueFull(q) THEN q ELSE Append(q, line)

\* mutant of next_id: the increment forgotten
next_id_stale(buffer) == buffer.event_counter

\* buffer.event_counter += 1
next_id(buffer) == buffer.event_counter + 1

Issued(line, b) == [line |-> line, buffer |-> b]

broadcast(m, job_id, event_type, data) ==
    LET m1 == _get_or_create_buffer(m, job_id)
        b == m1._jobs[job_id]
        n == next_id(m1.buffers[b])
        line == StreamLine(str(n), event_type, data, <<>>)
        to == m1.buffers[b].subscribers
    IN  [m1 EXCEPT
            !.buffers[b].event_counter = n,
            !.buffers[b].lines = trim(Append(@, line)),
            !.queues = [q \in DOMAIN @ |->
                          IF q \in to THEN put_nowait(@[q], line) ELSE @[q]],
            !.issued[job_id] = Append(@, Issued(line, b)),
            !.offered = [q \in DOMAIN @ |->
                          IF q \in to THEN Append(@[q], line) ELSE @[q]],
            !.dropped = [q \in DOMAIN @ |->
                          IF q \in to /\ QueueFull(m1.queues[q])
                          THEN Append(@[q], line) ELSE @[q]]]

\* asyncio.Task.cancel(): only a task that has not run yet is stopped
cancel(task) ==
    IF task.state = "sleeping" THEN [task EXCEPT !.state = "cancelled"]
    ELSE task

cancel_pending_cleanup(m, job_id) ==
    IF m._cleanup_tasks[job_id] # 0
    THEN [m EXCEPT !.tasks[m._cleanup_tasks[job_id]] = cancel(@),
                   !._cleanup_tasks[job_id] = 0]
    ELSE m

cleanup(m, job_id) ==
    LET m1 == cancel_pending_cleanup(m, job_id)
    IN  [m1 EXCEPT !._jobs[job_id] = 0]

complete_job(m, job_id) ==
    IF m._jobs[job_id] = 0 THEN m
    ELSE LET b == m._jobs[job_id]
             m1 == [m EXCEPT !.buffers[b].is_complete = TRUE,
                             !.completed = @ \cup {job_id}]
             m2 == broadcast(m1, job_id, "status", "completed")
         IN  [m2 EXCEPT
                 !.tasks = Append(@, [job_id |-> job_id, state |-> "sleeping"]),
                 !._cleanup_tasks[job_id] = Len(m2.tasks) + 1]

\* cleanup_after_delay once its sleep is over
cleanup_after_delay(m, t) ==
    LET m1 == [m EXCEPT !.tasks[t].state = "running"]
        m2 == cleanup(m1, m.tasks[t].job_id)
    IN  [m2 EXCEPT !.tasks[t].state = "done"]

\* -------------------------------------------------- SSEManager.subscribe
_format_sse(line) == [id |-> line.id, event |-> line.type, data |-> line]

\* lines 84-104: up to the yield of the connected event
subscribe_enter(m, job_id) ==
    LET m1 == cancel_pending_cleanup(_get_or_create_buffer(m, job_id), job_id)
        b == m1._jobs[job_id]
        q == Len(m1.queues) + 1
        n == next_id(m1.buffers[b])
    IN  [m1 EXCEPT !.queues = Append(@, <<>>),
                   !.offered = Append(@, <<>>),
                   !.dropped = Append(@, <<>>),
                   !.buffers[b].subscribers = @ \cup {q},
                   !.buffers[b].event_counter = n,
                   !.issued[job_id] =
                       Append(@, Issued(StreamLine(str(n), "connected", job_id, <<>>), b))]

\* the connected event subscribe_enter has just numbered
connected_line(m, b, job_id) ==
    StreamLine(str(m.buffers[b].event_counter), "connected", job_id, <<>>)

\* mutant of missed_lines: >= for > in the filter
missed_lines_inclusive(lines, last_event_id) ==
    LET history_start_id ==
            IF Truthy(last_event_id) THEN int(last_event_id.value) ELSE 0
    IN  SelectSeq(lines, LAMBDA l : int(l.id) >= history_start_id)

\* lines 107-112
missed_lines(lines, last_event_id) ==
    LET history_start_id ==
            IF Truthy(last_event_id) THEN int(last_event_id.value) ELSE 0
    IN  SelectSeq(lines, LAMBDA l : int(l.id) > history_start_id)

\* mutant of sends_history: no backfill unless Last-Event-ID was sent
sends_history_on_reconnect(m, f) ==
    /\ Truthy(f.last_event_id)
    /\ m.buffers[f.buffer].lines # <<>>
    /\ missed_lines(m.buffers[f.buffer].lines, f.last_event_id) # <<>>

\* `if buffer.lines:` and `if missed_lines:` (lines 107, 114)
sends_history(m, f) ==
    /\ m.buffers[f.buffer].lines # <<>>
    /\ missed_lines(m.buffers[f.buffer].lines, f.last_event_id) # <<>>

history_line(m, f) ==
    LET missed == missed_lines(m.buffers[f.buffer].lines, f.last_event_id)
    IN  StreamLine(str(next_id(m.buffers[f.buffer])), "history",
                   "json", [i \in DOMAIN missed |-> HistoryItem(missed[i])])

\* mutant of stream_finished: the queue.empty() test left out
stream_finished_undrained(m, f) == m.buffers[f.buffer].is_complete

\* lines 137 and 144
stream_finished(m, f) ==
    m.buffers[f.buffer].is_complete /\ m.queues[f.queue] = <<>>

\* mutant of discard_subscriber: the finally clause left out
discard_nothing(m, f) == m

\* the finally clause
discard_subscriber(m, f) ==
    [m EXCEPT !.buffers[f.buffer].subscribers = @ \ {f.queue}]

\* ----------------------------------------------------- models/schemas.py
\* Optional[T]: None(d) carries a default d of T's type that is never read.
None(d) == [some |-> FALSE, value |-> d]
Some(v) == [some |-> TRUE, value |-> v]

\* truthiness of Optional[int]
TruthyInt(o) == o.some /\ o.value # 0

LogEntry(now, message) == [timestamp |-> now, message |-> message]

\* a log message: what it reports, the percentage or 0, and the text put in
Message(kind, percent, text) == [kind |-> kind, percent |-> percent, text |-> text]

ProgressDetails(action, percent, step, total, now, logs) ==
    [currentAction |-> action, subProgress |-> percent, currentStep |-> step,
     totalSteps |-> total, phaseStartedAt |-> now, logs |-> logs]

\* the job start_generation builds; content is the number of tutorial steps
GenerationJob(now) ==
    [status |-> "pending",
     content |-> None(0),
     audioFiles |-> None(<<>>),
     videoPath |-> None(""),
     error |-> None(""),
     createdAt |-> now,
     startedAt |-> None(0),
     completedAt |-> None(0),
     progress |-> None(ProgressDetails("", 0, None(0), None(0), 0, <<>>))]

\* ----------------------------------------------------- services/progress.py
\* logs[-MAX_LOGS:] when the list is too long
\* mutant of trim_logs: the slice taken from the wrong end (logs[:MAX_LOGS])
trim_logs_keeps_oldest(logs) ==
    IF Len(logs) > MAX_LOGS THEN SubSeq(logs, 1, MAX_LOGS) ELSE logs

trim_logs(logs) ==
    IF Len(logs) > MAX_LOGS
    THEN SubSeq(logs, Len(logs) - MAX_LOGS + 1, Len(logs))
    ELSE logs

log(job, message, now) ==
    LET p == IF job.progress.some THEN job.progress.value
             ELSE ProgressDetails("", 0, None(0), None(0), now, <<>>)
    IN  [job EXCEPT !.progress =
            Some([p EXCEPT !.logs = trim_logs(Append(@, LogEntry(now, message)))])]

_get_default_action(status) ==
    CASE status = "pending" -> "Waiting to start..."
      [] status = "generating_content" -> "AI is generating tutorial content..."
      [] status = "generating_audio" -> "Converting text to speech..."
      [] status = "rendering" -> "Rendering video..."
      [] status = "completed" -> "Done!"
      [] status = "error" -> "An error occurred"
      [] OTHER -> "Processing..."

start_phase_keeps_status(job, status, total_steps, now) ==
    LET logs == IF job.progress.some THEN job.progress.value.logs ELSE <<>>
        fresh == ProgressDetails(_get_default_action(status), 0,
                     IF TruthyInt(total_steps) THEN Some(1) ELSE None(0),
                     total_steps, now, logs)
    IN  log([job EXCEPT !.progress = Some(fresh)],
            Message("Starting phase", 0, status), now)

start_phase(job, status, total_steps, now) ==
    LET logs == IF job.progress.some THEN job.progress.value.logs ELSE <<>>
        fresh == ProgressDetails(_get_default_action(status), 0,
                     IF TruthyInt(total_steps) THEN Some(1) ELSE None(0),
                     total_steps, now, logs)
    IN  log([job EXCEPT !.status = status, !.progress = Some(fresh)],
            Message("Starting phase", 0, status), now)

\* mutant of clamp: min(100, percent), the lower bound forgotten
clamp_upper_only(percent) ==
    IF percent < 100 THEN percent ELSE 100

\* max(0, min(100, percent))
clamp(percent) ==
    LET low == IF percent < 100 THEN percent ELSE 100
    IN  IF low > 0 THEN low ELSE 0

\* percent is a whole number here, so round(percent) is percent; no caller
\* passes file
update_progress(job, percent, action, step, now) ==
    LET j1 == IF job.progress.some THEN job
              ELSE [job EXCEPT !.progress =
                       Some(ProgressDetails(action, percent, None(0), None(0), now, <<>>))]
        j2 == [j1 EXCEPT !.progress.value.subProgress = clamp(percent),
                         !.progress.value.currentAction = action,
                         !.progress.value.currentStep =
                             IF step.some THEN step ELSE @]
    IN  log(j2, Message("progress", percent, action), now)

\* mutant of complete_phase: every finished phase stamps completedAt
complete_phase_stamping(job, now) ==
    IF job.progress.some
    THEN log([job EXCEPT !.progress.value.subProgress = 100,
                         !.completedAt = Some(now)],
             Message("Phase completed", 0, job.status), now)
    ELSE job

complete_phase(job, now) ==
    IF job.progress.some
    THEN log([job EXCEPT !.progress.value.subProgress = 100],
             Message("Phase completed", 0, job.status), now)
    ELSE job

\* mutant of set_error: a failure rolls the results back
set_error_rolling_back(job, message, now) ==
    log([job EXCEPT !.status = "error",
                    !.error = Some(message),
                    !.completedAt = Some(now),
                    !.content = None(0)],
        Message("Error", 0, message), now)

set_error(job, message, now) ==
    log([job EXCEPT !.status = "error",
                    !.error = Some(message),
                    !.completedAt = Some(now)],
        Message("Error", 0, message), now)

\* ------------------------------------------------------------------ state
VARIABLES sse_manager, subs, job, jobs, runs, clock

vars == <<sse_manager, subs, job, jobs, runs, clock>>

busvars == <<sse_manager, subs>>

jobvars == <<job, jobs, runs, clock>>

Open(s) == s \in DOMAIN subs /\ subs[s].pc \notin {"done", "closed"}

CounterOf(job_id) ==
    IF sse_manager._jobs[job_id] = 0 THEN 0
    ELSE sse_manager.buffers[sse_manager._jobs[job_id]].event_counter

\* room in the heaps and under the counter cap for one more call
Allocated ==
    Len(sse_manager.buffers) + 2 * Len(sse_manager.queues) + Len(sse_manager.tasks)

\* room for n more objects next to the buffer the call may have to create
MayAllocate(job_id, n) ==
    Allocated + n + (IF sse_manager._jobs[job_id] = 0 THEN 1 ELSE 0) <= MaxObjects

\* the frame of one process_job call
Frame(pc) ==
    [pc |-> pc, steps |-> 0, i |-> 0, audio_paths |-> <<>>,
     has_received_data |-> FALSE, stdout_chunks |-> 0, stderr_chunks |-> 0,
     render_lines |-> 0]

Init ==
    /\ sse_manager = SSEManager
    /\ subs = <<>>
    /\ job = [j \in JobIds |-> None(GenerationJob(0))]
    /\ jobs = {}
    /\ runs = [j \in JobIds |-> Frame("none")]
    /\ clock = 0

\* ---------------------------------------------------------------- actions
Broadcast(job_id, event_type, data) ==
    /\ MayAllocate(job_id, 0)
    /\ CounterOf(job_id) < MaxCounter
    /\ sse_manager' = broadcast(sse_manager, job_id, event_type, data)
    /\ UNCHANGED <<subs, jobvars>>

CompleteJob(job_id) ==
    /\ CounterOf(job_id) < MaxCounter
    /\ (sse_manager._jobs[job_id] # 0 => Allocated < MaxObjects)
    /\ sse_manager' = complete_job(sse_manager, job_id)
    /\ UNCHANGED <<subs, jobvars>>

Cleanup(job_id) ==
    /\ sse_manager' = cleanup(sse_manager, job_id)
    /\ UNCHANGED <<subs, jobvars>>

TimerFire(t) ==
    /\ t \in DOMAIN sse_manager.tasks
    /\ sse_manager.tasks[t].state = "sleeping"
    /\ sse_manager' = cleanup_after_delay(sse_manager, t)
    /\ UNCHANGED <<subs, jobvars>>

\* first __anext__: runs to `yield connected`
Subscribe(job_id, last_event_id) ==
    /\ MayAllocate(job_id, 2)
    /\ CounterOf(job_id) < MaxCounter
    /\ LET m == subscribe_enter(sse_manager, job_id)
           b == m._jobs[job_id]
           c == connected_line(m, b, job_id)
       IN  /\ sse_manager' = m
           /\ subs' = Append(subs,
                  [job_id |-> job_id, last_event_id |-> last_event_id,
                   buffer |-> b, queue |-> Len(m.queues),
                   pc |-> "connected", out |-> <<_format_sse(c)>>])
    /\ UNCHANGED jobvars

\* resumed after the connected event: history, else into the loop
SubHistory(s) ==
    /\ s \in DOMAIN subs /\ subs[s].pc = "connected"
    /\ LET f == subs[s]
       IN  IF sends_history(sse_manager, f)
           THEN /\ subs' = [subs EXCEPT ![s].pc = "history",
                       ![s].out = Append(@, _format_sse(history_line(sse_manager, f)))]
                /\ sse_manager' =
                       [sse_manager EXCEPT
                           !.buffers[f.buffer].event_counter =
                               next_id(sse_manager.buffers[f.buffer]),
                           !.issued[f.job_id] =
                               Append(@, Issued(history_line(sse_manager, f), f.buffer))]
           ELSE /\ subs' = [subs EXCEPT ![s].pc = "waiting"]
                /\ UNCHANGED sse_manager
    /\ UNCHANGED jobvars

\* resumed after the history event: into the loop
SubEnterLoop(s) ==
    /\ s \in DOMAIN subs /\ subs[s].pc = "history"
    /\ subs' = [subs EXCEPT ![s].pc = "waiting"]
    /\ UNCHANGED <<sse_manager, jobvars>>

\* queue.get() returns: the line is yielded
SubGet(s) ==
    /\ s \in DOMAIN subs /\ subs[s].pc = "waiting"
    /\ sse_manager.queues[subs[s].queue] # <<>>
    /\ subs' = [subs EXCEPT ![s].pc = "yielded",
                   ![s].out = Append(@, _format_sse(Head(sse_manager.queues[subs[s].queue])))]
    /\ sse_manager' = [sse_manager EXCEPT !.queues[subs[s].queue] = Tail(@)]
    /\ UNCHANGED jobvars

\* wait_for times out after 30 s on an empty queue: a keepalive is yielded
SubKeepalive(s) ==
    /\ s \in DOMAIN subs /\ subs[s].pc = "waiting"
    /\ sse_manager.queues[subs[s].queue] = <<>>
    /\ subs' = [subs EXCEPT ![s].pc = "keepalive"]
    /\ UNCHANGED <<sse_manager, jobvars>>

\* resumed after a yield inside the loop: break or wait again
SubCheck(s) ==
    /\ s \in DOMAIN subs /\ subs[s].pc \in {"yielded", "keepalive"}
    /\ IF stream_finished(sse_manager, subs[s])
       THEN /\ subs' = [subs EXCEPT ![s].pc = "done"]
            /\ sse_manager' = discard_subscriber(sse_manager, subs[s])
       ELSE /\ subs' = [subs EXCEPT ![s].pc = "waiting"]
            /\ UNCHANGED sse_manager
    /\ UNCHANGED jobvars

\* the consumer walks away: the generator is closed where it is parked
Disconnect(s) ==
    /\ Open(s)
    /\ subs' = [subs EXCEPT ![s].pc = "closed"]
    /\ sse_manager' = discard_subscriber(sse_manager, subs[s])
    /\ UNCHANGED jobvars

\* ------------------------------------------------------ utils/timeout.py
\* an exception object: its class, the fields the guard's TimeoutError
\* carries, and the text str(e) gives
Exception(type, operation, timeout_seconds, message) ==
    [type |-> type, operation |-> operation,
     timeout_seconds |-> timeout_seconds, message |-> message]

RuntimeError(message) == Exception("RuntimeError", "", 0, message)

\* asyncio.TimeoutError(): raised by wait_for, and by any await inside an
\* operation that times out on its own (a socket or HTTP client timeout)
asyncio_TimeoutError == Exception("asyncio.TimeoutError", "", 0, "")

RECURSIVE join(_)
join(chars) == IF chars = <<>> THEN "" ELSE Head(chars) \o join(Tail(chars))

\* the module's own TimeoutError(operation, timeout_seconds)
TimeoutError(operation, timeout_seconds) ==
    Exception("TimeoutError", operation, timeout_seconds,
              "Operation \"" \o operation \o "\" timed out after "
                  \o join(str(timeout_seconds)) \o " seconds")

\* how an awaited coroutine ends: it returns, it raises, or it is still
\* pending when the deadline comes
Returns(v) == [kind |-> "returns", value |-> v, error |-> RuntimeError("")]
Raises(e) == [kind |-> "raises", value |-> 0, error |-> e]
Pending == [kind |-> "pending", value |-> 0, error |-> RuntimeError("")]

\* asyncio.wait_for(coro, timeout): a coroutine still pending at the deadline
\* is cancelled and asyncio.TimeoutError raised in its place
wait_for(coro, timeout) ==
    IF coro.kind = "pending" THEN Raises(asyncio_TimeoutError) ELSE coro

with_timeout(coro, timeout_seconds, operation) ==
    LET r == wait_for(coro, timeout_seconds)
    IN  IF r.kind = "raises" /\ r.error.type = "asyncio.TimeoutError"
        THEN Raises(TimeoutError(operation, timeout_seconds))
        ELSE r

\* ------------------------------------------------- routers/generate.py
\* tutorial lengths the content generator may return (validation wants >= 1)
StepCounts == {1, 2}

\* how a stage can fail: the collaborator's own error, a result that does
\* not validate, or the Deadline Guard's TimeoutError
ContentErrors == {"exit", "parse", "timeout"}
StageErrors == {"failed", "timeout"}
\* speech synthesis goes over the network: its HTTP client can time out
AudioErrors == StageErrors \cup {"network_timeout"}

\* the coroutine a failing stage hands to with_timeout
failing_coro(e) ==
    CASE e = "timeout" -> Pending
      [] e = "network_timeout" -> Raises(asyncio_TimeoutError)
      [] OTHER -> Raises(RuntimeError(e))

\* the label generate_all_audio gives the guard for step i (0-based)
audio_label(i) == "Audio generation for step " \o join(str(i + 1))

\* JSON lines the render script may print
RenderOutput ==
    {[type |-> "progress", phase |-> "bundling", percent |-> 50],
     [type |-> "progress", phase |-> "selecting", percent |-> 100],
     [type |-> "progress", phase |-> "rendering", percent |-> 300],
     [type |-> "complete", phase |-> "", percent |-> 0]}

\* round((i / total_steps) * 100)
round_percent(i, total_steps) == (200 * i + total_steps) \div (2 * total_steps)

\* mutant of AudioPath: every step written to the file of step 0
AudioPath_of_first_step(job_id, i) == [job_id |-> job_id, step |-> 0]

AudioPath(job_id, i) == [job_id |-> job_id, step |-> i]

StartGeneration(job_id) ==
    /\ ~job[job_id].some
    /\ job' = [job EXCEPT ![job_id] = Some(GenerationJob(clock))]
    /\ jobs' = jobs \cup {job_id}
    /\ runs' = [runs EXCEPT ![job_id] = Frame("scheduled")]
    /\ clock' = clock + 1
    /\ UNCHANGED busvars

\* mutant of Raise: the except clause without its complete_job call
Raise_keeps_observers(job_id, jb, e) ==
    /\ job' = [job EXCEPT ![job_id] = Some(set_error(jb, e.message, clock))]
    /\ sse_manager' = broadcast(sse_manager, job_id, "status", "error")
    /\ runs' = [runs EXCEPT ![job_id].pc = "done"]
    /\ clock' = clock + 1
    /\ UNCHANGED <<subs, jobs>>

\* the except clause: set_error, the error status event, complete_job
Raise(job_id, jb, e) ==
    /\ job' = [job EXCEPT ![job_id] = Some(set_error(jb, e.message, clock))]
    /\ sse_manager' =
           complete_job(broadcast(sse_manager, job_id, "status", "error"), job_id)
    /\ runs' = [runs EXCEPT ![job_id].pc = "done"]
    /\ clock' = clock + 1
    /\ UNCHANGED <<subs, jobs>>

\* mutant of ProcessJobStart: the first phase is started without its status
\* broadcast
ProcessJobStart_unannounced(job_id) ==
    /\ runs[job_id].pc = "scheduled"
    /\ IF job_id \notin jobs
       THEN /\ runs' = [runs EXCEPT ![job_id].pc = "done"]
            /\ UNCHANGED <<busvars, job, jobs, clock>>
       ELSE LET j0 == [job[job_id].value EXCEPT !.startedAt = Some(clock)]
                j1 == start_phase(j0, "generating_content", None(0), clock)
                j2 == update_progress(j1, 10, "Preparing prompt for AI...", None(0), clock)
                j3 == update_progress(j2, 20, "AI is generating content...", None(0), clock)
            IN  /\ job' = [job EXCEPT ![job_id] = Some(j3)]
                /\ runs' = [runs EXCEPT ![job_id].pc = "content"]
                /\ clock' = clock + 1
                /\ UNCHANGED <<busvars, subs, jobs>>

\* process_job up to the await on the content generator's process
ProcessJobStart(job_id) ==
    /\ runs[job_id].pc = "scheduled"
    /\ IF job_id \notin jobs
       THEN /\ runs' = [runs EXCEPT ![job_id].pc = "done"]
            /\ UNCHANGED <<busvars, job, jobs, clock>>
       ELSE LET j0 == [job[job_id].value EXCEPT !.startedAt = Some(clock)]
                j1 == start_phase(j0, "generating_content", None(0), clock)
                j2 == update_progress(j1, 10, "Preparing prompt for AI...", None(0), clock)
                j3 == update_progress(j2, 20, "AI is generating content...", None(0), clock)
            IN  /\ job' = [job EXCEPT ![job_id] = Some(j3)]
                /\ sse_manager' =
                       broadcast(sse_manager, job_id, "status", "generating_content")
                /\ runs' = [runs EXCEPT ![job_id].pc = "content"]
                /\ clock' = clock + 1
                /\ UNCHANGED <<subs, jobs>>

\* mutant of ContentStdout: the reader left running after the stage ended
ContentStdout_detached(job_id) ==
    /\ runs[job_id].pc \in {"content", "audio", "render", "done"}
    /\ runs[job_id].stdout_chunks < MaxChunks
    /\ sse_manager' = broadcast(sse_manager, job_id, "stdout", "chunk")
    /\ runs' = [runs EXCEPT ![job_id].stdout_chunks = @ + 1]
    /\ UNCHANGED <<subs, job, jobs, clock>>

\* read_stdout gets a chunk
ContentStdout(job_id) ==
    /\ runs[job_id].pc = "content"
    /\ runs[job_id].stdout_chunks < MaxChunks
    /\ sse_manager' = broadcast(sse_manager, job_id, "stdout", "chunk")
    /\ job' = IF runs[job_id].has_received_data THEN job
              ELSE [job EXCEPT ![job_id] =
                       Some(update_progress(job[job_id].value, 50,
                                "Receiving AI response...", None(0), clock))]
    /\ runs' = [runs EXCEPT ![job_id].stdout_chunks = @ + 1,
                            ![job_id].has_received_data = TRUE]
    /\ clock' = clock + 1
    /\ UNCHANGED <<subs, jobs>>

\* read_stderr gets a chunk
ContentStderr(job_id) ==
    /\ runs[job_id].pc = "content"
    /\ runs[job_id].stderr_chunks < MaxChunks
    /\ sse_manager' = broadcast(sse_manager, job_id, "stderr", "chunk")
    /\ runs' = [runs EXCEPT ![job_id].stderr_chunks = @ + 1]
    /\ clock' = clock + 1
    /\ UNCHANGED <<subs, job, jobs>>

\* the content stage returns n validated steps; on to the first audio step
ContentReturns(job_id, n) ==
    /\ runs[job_id].pc = "content"
    /\ LET j1 == update_progress(job[job_id].value, 80,
                     "Parsing tutorial content...", None(0), clock)
           j2 == update_progress(j1, 100, "Content generation complete", None(0), clock)
           content == with_timeout(Returns(n), CONTENT_GENERATION,
                                   "Content generation").value
           j3 == complete_phase([j2 EXCEPT !.content = Some(content)], clock)
           j4 == start_phase(j3, "generating_audio", Some(n), clock)
           j5 == update_progress(j4, round_percent(0, n),
                     "Generating audio for step", Some(1), clock)
       IN  /\ job' = [job EXCEPT ![job_id] = Some(j5)]
           /\ sse_manager' =
                  broadcast(sse_manager, job_id, "status", "generating_audio")
           /\ runs' = [runs EXCEPT ![job_id].pc = "audio",
                                   ![job_id].steps = n,
                                   ![job_id].i = 0]
    /\ clock' = clock + 1
    /\ UNCHANGED <<subs, jobs>>

\* the content stage raises; a result that fails to parse or validate has
\* already reported 80 %
ContentFails(job_id, e) ==
    /\ runs[job_id].pc = "content"
    /\ Raise(job_id,
             IF e = "parse"
             THEN update_progress(job[job_id].value, 80,
                      "Parsing tutorial content...", None(0), clock)
             ELSE job[job_id].value,
             with_timeout(failing_coro(e), CONTENT_GENERATION,
                          "Content generation").error)

\* one audio step is synthesized; the next one starts, or the render does
AudioStepDone(job_id) ==
    /\ runs[job_id].pc = "audio"
    /\ LET f == runs[job_id]
           paths == Append(f.audio_paths,
                           with_timeout(Returns(AudioPath(job_id, f.i)),
                                        AUDIO_PER_STEP, audio_label(f.i)).value)
       IN  IF f.i + 1 < f.steps
           THEN /\ job' = [job EXCEPT ![job_id] =
                           Some(update_progress(job[job_id].value,
                                    round_percent(f.i + 1, f.steps),
                                    "Generating audio for step", Some(f.i + 2), clock))]
                /\ runs' = [runs EXCEPT ![job_id].i = f.i + 1,
                                        ![job_id].audio_paths = paths]
                /\ UNCHANGED sse_manager
           ELSE LET j1 == update_progress(job[job_id].value, 100,
                              "Audio generation complete", Some(f.steps), clock)
                    j2 == complete_phase([j1 EXCEPT !.audioFiles = Some(paths)], clock)
                    j3 == start_phase(j2, "rendering", None(0), clock)
                    j4 == update_progress(j3, 5, "Calculating audio durations...",
                              None(0), clock)
                    j5 == update_progress(j4, 10, "Starting Remotion render...",
                              None(0), clock)
                IN  /\ job' = [job EXCEPT ![job_id] = Some(j5)]
                    /\ sse_manager' =
                           broadcast(sse_manager, job_id, "status", "rendering")
                    /\ runs' = [runs EXCEPT ![job_id].pc = "render",
                                            ![job_id].audio_paths = paths]
    /\ clock' = clock + 1
    /\ UNCHANGED <<subs, jobs>>

AudioStepFails(job_id, e) ==
    /\ runs[job_id].pc = "audio"
    /\ Raise(job_id, job[job_id].value,
             with_timeout(failing_coro(e), AUDIO_PER_STEP,
                          audio_label(runs[job_id].i)).error)

\* read_stdout of run_render parses one line of the script's output
RenderLine(job_id, line) ==
    /\ runs[job_id].pc = "render"
    /\ runs[job_id].render_lines < MaxRenderLines
    /\ LET jb == job[job_id].value
           p == line.percent
       IN  job' = [job EXCEPT ![job_id] = Some(
               CASE line.type = "progress" /\ line.phase = "bundling" ->
                        update_progress(jb, 10 + (p * 3) \div 10, "Bundling", None(0), clock)
                 [] line.type = "progress" /\ line.phase = "selecting" ->
                        update_progress(jb, 40,
                            "Bundle complete, preparing composition...", None(0), clock)
                 [] line.type = "progress" /\ line.phase = "rendering" ->
                        update_progress(jb, 50 + p \div 2, "Rendering video", None(0), clock)
                 [] line.type = "complete" ->
                        update_progress(jb, 100, "Video render complete!", None(0), clock)
                 [] OTHER -> jb)]
    /\ runs' = [runs EXCEPT ![job_id].render_lines = @ + 1]
    /\ clock' = clock + 1
    /\ UNCHANGED <<busvars, jobs>>

\* mutant of RenderReturns: complete_phase called before the job is marked
\* completed
RenderReturns_phase_first(job_id) ==
    /\ runs[job_id].pc = "render"
    /\ LET j1 == complete_phase(job[job_id].value, clock)
       IN  job' = [job EXCEPT ![job_id] =
                      Some([j1 EXCEPT !.videoPath = Some(job_id),
                                      !.status = "completed",
                                      !.completedAt = Some(clock)])]
    /\ sse_manager' = complete_job(sse_manager, job_id)
    /\ runs' = [runs EXCEPT ![job_id].pc = "done"]
    /\ clock' = clock + 1
    /\ UNCHANGED <<subs, jobs>>

\* lines 126-136; cleanup_audio (services/tts.py 129-144) has no suspension
\* point and swallows every exception, so the whole success path is one step
RenderReturns(job_id) ==
    /\ runs[job_id].pc = "render"
    /\ LET video_path == with_timeout(Returns(job_id),
                                      VIDEO_RENDER + REMOTION_BUNDLE,
                                      "Video rendering").value
           j1 == [job[job_id].value EXCEPT !.videoPath = Some(video_path),
                                            !.status = "completed",
                                            !.completedAt = Some(clock)]
       IN  job' = [job EXCEPT ![job_id] = Some(complete_phase(j1, clock))]
    /\ sse_manager' = complete_job(sse_manager, job_id)
    /\ runs' = [runs EXCEPT ![job_id].pc = "done"]
    /\ clock' = clock + 1
    /\ UNCHANGED <<subs, jobs>>

RenderFails(job_id, e) ==
    /\ runs[job_id].pc = "render"
    /\ Raise(job_id, job[job_id].value,
             with_timeout(failing_coro(e), VIDEO_RENDER + REMOTION_BUNDLE,
                          "Video rendering").error)

\* GET /jobs/{job_id}/stream: 404 unless the job is registered
StreamJob(job_id, last_event_id) ==
    /\ job_id \in jobs
    /\ Len(subs) < MaxStreams
    /\ Subscribe(job_id, last_event_id)

\* DELETE /jobs/{job_id}
DeleteJob(job_id) ==
    /\ job_id \in jobs
    /\ jobs' = jobs \ {job_id}
    /\ UNCHANGED <<busvars, job, runs, clock>>

NextJob ==
    \/ \E j \in JobIds : StartGeneration(j)
    \/ \E j \in JobIds : ProcessJobStart(j)
    \/ \E j \in JobIds : ContentStdout(j)
    \/ \E j \in JobIds : ContentStderr(j)
    \/ \E j \in JobIds, n \in StepCounts : ContentReturns(j, n)
    \/ \E j \in JobIds, e \in ContentErrors : ContentFails(j, e)
    \/ \E j \in JobIds : AudioStepDone(j)
    \/ \E j \in JobIds, e \in AudioErrors : AudioStepFails(j, e)
    \/ \E j \in JobIds, l \in RenderOutput : RenderLine(j, l)
    \/ \E j \in JobIds : RenderReturns(j)
    \/ \E j \in JobIds, e \in StageErrors : RenderFails(j, e)
    \/ \E j \in JobIds, h \in LastEventIds : StreamJob(j, h)
    \/ \E j \in JobIds : DeleteJob(j)
    \/ \E t \in DOMAIN sse_manager.tasks : TimerFire(t)
    \/ \E s \in DOMAIN subs : SubHistory(s)
    \/ \E s \in DOMAIN subs : SubEnterLoop(s)
    \/ \E s \in DOMAIN subs : SubGet(s)
    \/ \E s \in DOMAIN subs : SubKeepalive(s)
    \/ \E s \in DOMAIN subs : SubCheck(s)
    \/ \E s \in DOMAIN subs : Disconnect(s)

\* the whole server: requests, pipeline runs, subscriptions and timers
SpecJob == Init /\ [][NextJob]_vars

\* a step of the background task that runs process_job for one job
PipelineStep(j) ==
    \/ ProcessJobStart(j)
    \/ ContentStdout(j)
    \/ ContentStderr(j)
    \/ \E n \in StepCounts : ContentReturns(j, n)
    \/ \E e \in ContentErrors : ContentFails(j, e)
    \/ AudioStepDone(j)
    \/ \E e \in AudioErrors : AudioStepFails(j, e)
    \/ \E l \in RenderOutput : RenderLine(j, l)
    \/ RenderReturns(j)
    \/ \E e \in StageErrors : RenderFails(j, e)

\* process_job has a step to take: ENABLED <<PipelineStep(j)>>_vars, read
\* off the guards of the steps
Running(j) == runs[j].pc \in {"scheduled", "content", "audio", "render"}

\* The event loop runs the scheduled background task, and every awaited
\* collaborator call returns, fails or hits its deadline: weak fairness of
\* PipelineStep(j), WF_vars(PipelineStep(j)), with its ENABLED written out.
FairSpecJob ==
    /\ SpecJob
    /\ \A j \in JobIds : []<>~Running(j) \/ []<><<PipelineStep(j)>>_vars

\* --------------------------------- the tracker under arbitrary calls
\* percentages below, inside and above the range
Percents == {-5, 50, 150}
Phases == {"generating_audio", "rendering"}
StepArgs == {None(0), Some(2)}
\* total_steps as start_phase may get it: absent, a count, or the count 0
TotalStepArgs == StepArgs \cup {Some(0)}

TrackerCall(job_id, after) ==
    /\ job[job_id].some
    /\ clock < MaxClock
    /\ job' = [job EXCEPT ![job_id] = Some(after)]
    /\ clock' = clock + 1
    /\ UNCHANGED <<busvars, jobs, runs>>

StartPhase(job_id, status, total_steps) ==
    TrackerCall(job_id, start_phase(job[job_id].value, status, total_steps, clock))

UpdateProgress(job_id, percent, step) ==
    TrackerCall(job_id,
                update_progress(job[job_id].value, percent, "action", step, clock))

Log(job_id) ==
    TrackerCall(job_id, log(job[job_id].value, Message("log", 0, "message"), clock))

CompletePhase(job_id) ==
    TrackerCall(job_id, complete_phase(job[job_id].value, clock))

SetError(job_id) ==
    TrackerCall(job_id, set_error(job[job_id].value, "failed", clock))

NextTracker ==
    \/ \E j \in JobIds : StartGeneration(j)
    \/ \E j \in JobIds, st \in Phases, n \in TotalStepArgs : StartPhase(j, st, n)
    \/ \E j \in JobIds, p \in Percents, n \in StepArgs : UpdateProgress(j, p, n)
    \/ \E j \in JobIds : Log(j)
    \/ \E j \in JobIds : CompletePhase(j)
    \/ \E j \in JobIds : SetError(j)

\* a tracker on a fresh job, its operations called in any order
SpecTracker == Init /\ [][NextTracker]_vars

\* ------------------------------------------- the bus under arbitrary calls
BroadcastInputs == {<<"stdout", "out">>}

Next ==
    \/ \E j \in JobIds, i \in BroadcastInputs : Broadcast(j, i[1], i[2])
    \/ \E j \in JobIds : CompleteJob(j)
    \/ \E j \in JobIds : Cleanup(j)
    \/ \E t \in DOMAIN sse_manager.tasks : TimerFire(t)
    \/ \E j \in JobIds, h \in LastEventIds : Subscribe(j, h)
    \/ \E s \in DOMAIN subs : SubHistory(s)
    \/ \E s \in DOMAIN subs : SubEnterLoop(s)
    \/ \E s \in DOMAIN subs : SubGet(s)
    \/ \E s \in DOMAIN subs : SubKeepalive(s)
    \/ \E s \in DOMAIN subs : SubCheck(s)
    \/ \E s \in DOMAIN subs : Disconnect(s)

Spec == Init /\ [][Next]_vars

\* What the event loop and a consumer that keeps reading guarantee: a
\* parked subscription is resumed, the 30 s keepalive timer and the grace
\* period timer fire.  Calls of the bus and disconnections are the
\* environment's choice.
SubStep(s) ==
    SubHistory(s) \/ SubEnterLoop(s) \/ SubGet(s) \/ SubKeepalive(s) \/ SubCheck(s)

FairSpec ==
    /\ Spec
    /\ \A s \in 1..MaxObjects : WF_vars(SubStep(s))
    /\ \A t \in 1..MaxObjects : WF_vars(TimerFire(t))

\* ============================================================ properties
Ids(lines) == [i \in DOMAIN lines |-> int(lines[i].id)]

StrictlyIncreasing(ns) ==
    \A i, k \in DOMAIN ns : i < k => ns[i] < ns[k]

Last(seq) == seq[Len(seq)]

\* the lines a subscription yielded from its queue
LiveOut(s) ==
    LET live == SelectSeq(subs[s].out,
                   LAMBDA e : e.event \notin {"connected", "history"})
    IN  [i \in DOMAIN live |-> live[i].data]

\* seq without the elements of gone
Without(seq, gone) ==
    SelectSeq(seq, LAMBDA l : \A i \in DOMAIN gone : gone[i] # l)

\* seq is a subsequence of whole, in whole's order (ids identify lines)
InOrderOf(seq, whole) ==
    /\ \A i \in DOMAIN seq : \E k \in DOMAIN whole : whole[k] = seq[i]
    /\ \A i, k \in DOMAIN seq : i < k =>
          \E a, b \in DOMAIN whole : a < b /\ whole[a] = seq[i] /\ whole[b] = seq[k]

\* every event constructed on buffer b, in construction order
Made(b) ==
    LET j == CHOOSE j \in JobIds :
                 \E i \in DOMAIN sse_manager.issued[j] :
                     sse_manager.issued[j][i].buffer = b
        mine == SelectSeq(sse_manager.issued[j], LAMBDA e : e.buffer = b)
    IN  [i \in DOMAIN mine |-> mine[i].line]

\* the events broadcast appended to buffer b, in order
Appended(b) ==
    SelectSeq(Made(b), LAMBDA l : l.type \notin {"connected", "history"})

\* the stage order of process_job, and the failure exit of every stage
Pipeline ==
    <<"pending", "generating_content", "generating_audio", "rendering", "completed">>

StatusMoves ==
    {<<Pipeline[i], Pipeline[i + 1]>> : i \in 1..(Len(Pipeline) - 1)}
        \cup {<<Pipeline[i], "error">> : i \in 1..(Len(Pipeline) - 1)}

\* when the tracker last started a phase for the job, if it ever did
PhaseStarted(jb) ==
    IF jb.progress.some THEN <<jb.progress.value.phaseStartedAt>> ELSE <<>>

\* C1: the status of a job only moves one stage forward along pending,
\* generating_content, generating_audio, rendering, completed, or from a
\* stage that is not terminal to error; a step that starts a phase moves the
\* status, so no stage is entered twice; completed and error are never left.
C1_StatusFollowsPipeline ==
    [][\A j \in JobIds :
          (job[j].some /\ job'[j].some)
          => LET a == job[j].value.status
                 b == job'[j].value.status
             IN  /\ a # b => <<a, b>> \in StatusMoves
                 /\ a \in {"completed", "error"} => job'[j].value.status = a
                 /\ PhaseStarted(job'[j].value) # PhaseStarted(job[j].value)
                       => /\ a # b
                          /\ b \in {"generating_content", "generating_audio",
                                    "rendering"}]_vars

\* a job went through every stage, with two audio steps, and completed
C1_Witness ==
    \E j \in JobIds :
        /\ job[j].some
        /\ job[j].value.status = "completed"
        /\ job[j].value.videoPath.some
        /\ Len(job[j].value.audioFiles.value) = 2
        /\ runs[j].pc = "done"

\* C2: the ids of the events one subscription yields (connected, history,
\* live) are strictly increasing, and its live events come in the order
\* they were broadcast.
C2_SubscriberIdsIncrease ==
    \A s \in DOMAIN subs :
        /\ StrictlyIncreasing(Ids(subs[s].out))
        /\ InOrderOf(LiveOut(s), sse_manager.offered[subs[s].queue])

\* C3: the history event of a subscription that gave lastSeenId = k lists
\* exactly the retained events with id > k, in buffer order; there is no
\* history event only when no retained event has id > k.
C3_HistoryIsRetainedAfterK ==
    [][\A s \in DOMAIN subs :
          (/\ subs[s].pc = "connected"
           /\ subs'[s].pc # "connected"
           /\ subs'[s].pc # "closed"
           /\ Truthy(subs[s].last_event_id))
          => LET k == int(subs[s].last_event_id.value)
                 retained == sse_manager.buffers[subs[s].buffer].lines
                 after == {i \in DOMAIN retained : int(retained[i].id) > k}
             IN  IF subs'[s].pc = "history"
                 THEN LET items == Last(subs'[s].out).data.items
                      IN  /\ Last(subs'[s].out).event = "history"
                          /\ Len(items) = Cardinality(after)
                          /\ \A n \in DOMAIN items : int(items[n].id) > k
                          /\ \A i \in after :
                                \E n \in DOMAIN items : items[n] = HistoryItem(retained[i])
                          /\ \A n, o \in DOMAIN items : n < o =>
                                \E i, l \in after :
                                    /\ i < l
                                    /\ items[n] = HistoryItem(retained[i])
                                    /\ items[o] = HistoryItem(retained[l])
                 ELSE after = {} /\ subs'[s].out = subs[s].out]_vars

\* a subscription parked at its history event that listed some retained
\* events and left out one with id <= k
C3_Witness ==
    \E s \in DOMAIN subs :
        /\ subs[s].pc = "history"
        /\ Truthy(subs[s].last_event_id)
        /\ Last(subs[s].out).data.items # <<>>
        /\ \E i \in DOMAIN sse_manager.buffers[subs[s].buffer].lines :
              int(sse_manager.buffers[subs[s].buffer].lines[i].id)
                  <= int(subs[s].last_event_id.value)

\* C4: a complete_job call on a job id that complete_job has already marked
\* complete changes nothing.
C4_SecondCompleteIsNoOp ==
    [][\A j \in JobIds :
          (CompleteJob(j) /\ j \in sse_manager.completed)
          => sse_manager' = sse_manager]_vars

\* C5, first half: a stream ends only when its buffer is complete and its
\* queue empty.
C5_EndsOnlyWhenDrained ==
    [][\A s \in DOMAIN subs :
          (subs[s].pc # "done" /\ subs'[s].pc = "done")
          => /\ sse_manager.buffers[subs[s].buffer].is_complete
             /\ sse_manager.queues[subs[s].queue] = <<>>]_vars

\* C5, second half: once complete_job has marked a job id complete every
\* subscription to that job id ends, whenever it was opened.
C5_EveryStreamEnds ==
    \A s \in 1..MaxObjects :
        [](Open(s) /\ subs[s].job_id \in sse_manager.completed
             => <>(s \in DOMAIN subs /\ ~Open(s)))

\* C5: a stream ends only when its buffer is complete and its queue empty,
\* and once complete_job has marked a job id complete every subscription to
\* that job id ends, whenever it was opened.
C5_StreamEndsOnceComplete == C5_EndsOnlyWhenDrained /\ C5_EveryStreamEnds

\* the events offered to a queue up to the first completion status event
UpToCompletion(lines) ==
    LET done == {i \in DOMAIN lines :
                    lines[i].type = "status" /\ lines[i].data = "completed"}
    IN  IF done = {} THEN lines
        ELSE SubSeq(lines, 1, CHOOSE i \in done : \A k \in done : i <= k)

\* C6 as claimed: a subscription that ends has yielded every event broadcast
\* for its buffer from its registration up to the completion status event.
C6_EveryBroadcastSeen ==
    \A s \in DOMAIN subs :
        subs[s].pc = "done"
        => LET sent == UpToCompletion(sse_manager.offered[subs[s].queue])
           IN  \A i \in DOMAIN sent :
                   \E k \in DOMAIN LiveOut(s) : LiveOut(s)[k] = sent[i]

\* C6 as amended: a subscription that ends has yielded, in order, exactly
\* the events broadcast put on its queue, that is the ones offered to it
\* minus the ones lost to a full queue.
C6_EveryEnqueuedSeen ==
    \A s \in DOMAIN subs :
        subs[s].pc = "done"
        => LiveOut(s) = Without(sse_manager.offered[subs[s].queue],
                                sse_manager.dropped[subs[s].queue])

\* a subscription ended after yielding one event and losing another
C6_Witness ==
    \E s \in DOMAIN subs :
        /\ subs[s].pc = "done"
        /\ LiveOut(s) # <<>>
        /\ sse_manager.dropped[subs[s].queue] # <<>>

\* C7: one broadcast step appends the event to the buffer and to every
\* registered queue with room; a full queue is left as it was, and no other
\* queue is touched.
C7_BroadcastDropsOnFull ==
    [][\A j \in JobIds, i \in BroadcastInputs :
          Broadcast(j, i[1], i[2])
          => LET b == sse_manager'._jobs[j]
                 line == Last(sse_manager'.buffers[b].lines)
                 before == IF sse_manager._jobs[j] = 0 THEN {}
                           ELSE sse_manager.buffers[b].subscribers
             IN  /\ line.type = i[1] /\ line.data = i[2]
                 /\ line.id = str(sse_manager'.buffers[b].event_counter)
                 /\ DOMAIN sse_manager'.queues = DOMAIN sse_manager.queues
                 /\ \A q \in DOMAIN sse_manager.queues :
                       sse_manager'.queues[q] =
                           IF q \in before /\ Len(sse_manager.queues[q]) < QUEUE_MAXSIZE
                           THEN sse_manager.queues[q] \o <<line>>
                           ELSE sse_manager.queues[q]]_vars

\* a full queue lost an event that another subscriber of the same buffer got
C7_Witness ==
    \E q1, q2 \in DOMAIN sse_manager.queues :
        /\ q1 # q2
        /\ subs[q1].buffer = subs[q2].buffer
        /\ Len(sse_manager.queues[q1]) = QUEUE_MAXSIZE
        /\ \E i \in DOMAIN sse_manager.dropped[q1] :
              \E k \in DOMAIN sse_manager.queues[q2] :
                  sse_manager.queues[q2][k] = sse_manager.dropped[q1][i]

\* C8: a buffer retains the most recent min(n, MAX_BUFFER_LINES) of the n
\* events broadcast to it, in order; its counter is n when no subscription
\* took an id; no buffer or queue exceeds its capacity.
C8_BufferKeepsMostRecent ==
    /\ \A b \in DOMAIN sse_manager.buffers :
          LET all == Appended(b)
              n == Len(all)
              kept == IF n < MAX_BUFFER_LINES THEN n ELSE MAX_BUFFER_LINES
          IN  /\ sse_manager.buffers[b].lines = SubSeq(all, n - kept + 1, n)
              /\ Len(sse_manager.buffers[b].lines) <= MAX_BUFFER_LINES
              /\ (Len(Made(b)) = n => sse_manager.buffers[b].event_counter = n)
    /\ \A q \in DOMAIN sse_manager.queues :
          Len(sse_manager.queues[q]) <= QUEUE_MAXSIZE

\* one more broadcast than the buffer holds, and no subscription
C8_Witness ==
    \E b \in DOMAIN sse_manager.buffers :
        /\ Len(Appended(b)) = MAX_BUFFER_LINES + 1
        /\ Len(Made(b)) = MAX_BUFFER_LINES + 1
        /\ sse_manager.buffers[b].event_counter = MAX_BUFFER_LINES + 1
        /\ Len(sse_manager.buffers[b].lines) = MAX_BUFFER_LINES

\* C9: the ids constructed for one job id are strictly increasing, so none
\* is used twice, whatever broadcast, subscribe, complete_job and cleanup
\* calls occur.
C9_IdsNeverReused ==
    \A j \in JobIds :
        StrictlyIncreasing([i \in DOMAIN sse_manager.issued[j] |->
                               int(sse_manager.issued[j][i].line.id)])

\* C10 as claimed: the retained ids are consecutive integers and the first
\* event broadcast has id 1.
C10_RetainedIdsConsecutive ==
    \A b \in DOMAIN sse_manager.buffers :
        /\ \A i \in 1..(Len(sse_manager.buffers[b].lines) - 1) :
              Ids(sse_manager.buffers[b].lines)[i + 1] =
                  Ids(sse_manager.buffers[b].lines)[i] + 1
        /\ Appended(b) # <<>> => Appended(b)[1].id = str(1)

\* C10 as amended: the retained ids are strictly increasing, every id
\* skipped between two neighbours is the id of a connected or history
\* event, and the first event constructed for a buffer has id 1.
C10_RetainedGapsAreSubscriptions ==
    \A b \in DOMAIN sse_manager.buffers :
        LET ids == Ids(sse_manager.buffers[b].lines)
        IN  /\ Made(b)[1].id = str(1)
            /\ \A n \in DOMAIN Made(b) : int(Made(b)[n].id) = n
            /\ \A i \in 1..(Len(ids) - 1) :
                  /\ ids[i] < ids[i + 1]
                  /\ \A n \in (ids[i] + 1)..(ids[i + 1] - 1) :
                        Made(b)[n].type \in {"connected", "history"}

\* two retained events with the id of a connected event between them
C10_Witness ==
    \E b \in DOMAIN sse_manager.buffers :
        \E i \in 1..(Len(sse_manager.buffers[b].lines) - 1) :
            /\ Ids(sse_manager.buffers[b].lines)[i + 1] =
                   Ids(sse_manager.buffers[b].lines)[i] + 2
            /\ Made(b)[Ids(sse_manager.buffers[b].lines)[i] + 1].type = "connected"

\* C11: a buffer that complete_job marked complete is removed once the grace
\* period is over, whatever subscribe calls occur meanwhile.  Without an
\* explicit cleanup call only a sleeping cleanup task removes a buffer, so
\* every complete buffer the bus still holds has one registered and pending.
C11_CompleteBufferAwaitsTeardown ==
    \A j \in JobIds :
        (/\ sse_manager._jobs[j] # 0
         /\ sse_manager.buffers[sse_manager._jobs[j]].is_complete)
        => /\ sse_manager._cleanup_tasks[j] # 0
           /\ sse_manager.tasks[sse_manager._cleanup_tasks[j]].state = "sleeping"

\* the status events constructed for a job id, in order
StatusEvents(j) ==
    SelectSeq([i \in DOMAIN sse_manager'.issued[j] |-> sse_manager'.issued[j][i].line],
              LAMBDA l : l.type = "status")

\* C12: when an audio step fails the job ends in error with no video path
\* and no audio file recorded, and the last status event broadcast for the
\* job has payload "error".
C12_AudioFailureEndsInError ==
    [][\A j \in JobIds, e \in AudioErrors :
          AudioStepFails(j, e)
          => /\ job'[j].value.status = "error"
             /\ ~job'[j].value.videoPath.some
             /\ ~job'[j].value.audioFiles.some
             /\ Last(StatusEvents(j)).data = "error"]_vars

\* C13: when delete_job returns the bus holds no buffer, no subscriber
\* registration and no pending teardown task for the job id.
C13_DeleteJobCleansBus ==
    [][\A j \in JobIds :
          DeleteJob(j)
          => /\ sse_manager'._jobs[j] = 0
             /\ sse_manager'._cleanup_tasks[j] = 0
             /\ \A t \in DOMAIN sse_manager'.tasks :
                   sse_manager'.tasks[t].job_id = j
                       => sse_manager'.tasks[t].state # "sleeping"]_vars

\* C14: with_timeout hands on the operation's result, or the operation's
\* own failure whatever its kind, and raises its TimeoutError(label,
\* maxDuration) exactly when its own deadline expired.  Seen on an audio
\* step: the error the job records is the guard's exactly when the step was
\* still pending at the deadline, and the step's own otherwise.
C14_GuardErrorOnlyOnDeadline ==
    [][\A j \in JobIds, e \in AudioErrors :
          AudioStepFails(j, e)
          => LET guard == TimeoutError(audio_label(runs[j].i), AUDIO_PER_STEP)
                 recorded == job'[j].value.error.value
             IN  /\ (recorded = guard.message) <=> (failing_coro(e) = Pending)
                 /\ failing_coro(e).kind = "raises"
                       => recorded = failing_coro(e).error.message]_vars

\* the cleanup tasks complete_job created for a job id, one per call that
\* found a buffer
TeardownsOf(j) ==
    {t \in DOMAIN sse_manager.tasks : sse_manager.tasks[t].job_id = j}

\* the completion status events complete_job broadcast for a job id
CompletionsOf(j) ==
    {i \in DOMAIN sse_manager.issued[j] :
        /\ sse_manager.issued[j][i].line.type = "status"
        /\ sse_manager.issued[j][i].line.data = "completed"}

Started(j) == runs[j].pc \in {"content", "audio", "render"}

Terminal(j) == job[j].some /\ job[j].value.status \in {"completed", "error"}

\* C15, safety half: complete_job is called for a job exactly when it
\* reaches completed or error, and only once.
C15_CompletedOnceAtTheEnd ==
    \A j \in JobIds :
        /\ Started(j)
              => ~Terminal(j) /\ TeardownsOf(j) = {} /\ CompletionsOf(j) = {}
        /\ Terminal(j)
              => /\ runs[j].pc = "done"
                 /\ Cardinality(TeardownsOf(j)) = 1
                 /\ Cardinality(CompletionsOf(j)) = 1
                 /\ j \in sse_manager.completed

\* C15: every pipeline run that found its job in the registry ends with the
\* job completed or in error, and complete_job has then been called for it
\* exactly once, on the success path and on the failure path.
C15_RunEndsAndReleasesObservers ==
    /\ []C15_CompletedOnceAtTheEnd
    /\ \A j \in JobIds : Started(j) ~> Terminal(j)

\* a job deleted from the registry while its run went on reached a terminal
\* state, with one teardown scheduled and a subscriber's stream ended
C15_Witness ==
    \E j \in JobIds :
        /\ Terminal(j)
        /\ j \notin jobs
        /\ Cardinality(TeardownsOf(j)) = 1
        /\ \E s \in DOMAIN subs : subs[s].job_id = j /\ subs[s].pc = "done"

\* the progress snapshot of a job that has one
Progress(j) == job[j].value.progress.value

HasProgress(j) == job[j].some /\ job[j].value.progress.some

\* C16: update_progress stores max(0, min(100, percent)) for every percent,
\* also when it has to create the snapshot, and subProgress is within
\* [0, 100] whatever tracker operations were called.
C16_SubProgressClamped ==
    /\ [](\A j \in JobIds :
             HasProgress(j)
             => Progress(j).subProgress >= 0 /\ Progress(j).subProgress <= 100)
    /\ [][\A j \in JobIds, p \in Percents, n \in StepArgs :
             UpdateProgress(j, p, n)
             => job'[j].value.progress.value.subProgress =
                    (IF p < 0 THEN 0 ELSE IF p > 100 THEN 100 ELSE p)]_vars

\* update_progress created the snapshot with 150 % and stored 100
C16_Witness ==
    \E j \in JobIds :
        /\ HasProgress(j)
        /\ Len(Progress(j).logs) = 1
        /\ Progress(j).logs[1].message.kind = "progress"
        /\ Progress(j).logs[1].message.percent > 100
        /\ Progress(j).subProgress = 100

\* the last n elements of seq, all of it when it is shorter
LastN(seq, n) ==
    IF Len(seq) > n THEN SubSeq(seq, Len(seq) - n + 1, Len(seq)) ELSE seq

\* C17: the log never holds more than MAX_LOGS entries, and a tracker
\* operation that logs leaves the most recent MAX_LOGS of the old entries
\* followed by the new one, in their order: the oldest are dropped.
C17_LogKeepsMostRecent ==
    /\ [](\A j \in JobIds : HasProgress(j) => Len(Progress(j).logs) <= MAX_LOGS)
    /\ [][\A j \in JobIds :
             (job[j].some /\ job'[j] # job[j])
             => LET old == IF HasProgress(j) THEN Progress(j).logs ELSE <<>>
                    new == job'[j].value.progress.value.logs
                IN  new = LastN(Append(old, Last(new)), MAX_LOGS)]_vars

\* a full log that has lost its first entries
C17_Witness ==
    \E j \in JobIds :
        /\ HasProgress(j)
        /\ Len(Progress(j).logs) = MAX_LOGS
        /\ Progress(j).logs[1].timestamp > job[j].value.createdAt + 1

\* the cleanup tasks of a job id that are still waiting for the grace
\* period to end
PendingTeardowns(m, j) ==
    {t \in DOMAIN m.tasks : m.tasks[t].job_id = j /\ m.tasks[t].state = "sleeping"}

\* C18: one cleanup step leaves no pending teardown and no buffer for the
\* job id, changes nothing for a job id the bus does not know, and leaves
\* every other job id's buffer and teardown task alone.
C18_CleanupLeavesNothingPending ==
    [][\A j \in JobIds :
          Cleanup(j)
          => /\ sse_manager'._jobs[j] = 0
             /\ sse_manager'._cleanup_tasks[j] = 0
             /\ PendingTeardowns(sse_manager', j) = {}
             /\ (sse_manager._jobs[j] = 0 /\ sse_manager._cleanup_tasks[j] = 0)
                   => sse_manager' = sse_manager
             /\ \A o \in JobIds \ {j} :
                   /\ sse_manager'._jobs[o] = sse_manager._jobs[o]
                   /\ sse_manager'._cleanup_tasks[o] = sse_manager._cleanup_tasks[o]
                   /\ PendingTeardowns(sse_manager', o) = PendingTeardowns(sse_manager, o)]_vars

\* the events of a subscription's output: connected first, no second
\* connected event, and a history event only in second place
ConnectedHistoryLive(out) ==
    /\ out[1].event = "connected"
    /\ \A i \in 2..Len(out) :
          /\ out[i].event # "connected"
          /\ out[i].event = "history" => i = 2

\* C19 as claimed: connected, then at most one history event, then live
\* events, and no history event for a subscription opened without
\* lastSeenId.
C19_HistoryOnlyOnReconnect ==
    \A s \in DOMAIN subs :
        /\ ConnectedHistoryLive(subs[s].out)
        /\ \A i \in DOMAIN subs[s].out :
              subs[s].out[i].event = "history" => Truthy(subs[s].last_event_id)

\* C19 as amended: connected, then at most one history event, then live
\* events; the history event is sent exactly when a retained event has an
\* id greater than k and lists those events in order, k being lastSeenId
\* when it was given and 0 when it was not.
C19_HistoryOfEverythingAfterK ==
    /\ [](\A s \in DOMAIN subs : ConnectedHistoryLive(subs[s].out))
    /\ [][\A s \in DOMAIN subs :
             (subs[s].pc = "connected" /\ subs'[s].pc \notin {"connected", "closed"})
             => LET k == IF subs[s].last_event_id.given /\ subs[s].last_event_id.value # <<>>
                         THEN int(subs[s].last_event_id.value) ELSE 0
                    retained == sse_manager.buffers[subs[s].buffer].lines
                    after == SelectSeq(retained, LAMBDA l : int(l.id) > k)
                IN  IF after = <<>>
                    THEN subs'[s].pc = "waiting" /\ subs'[s].out = subs[s].out
                    ELSE /\ subs'[s].pc = "history"
                         /\ Len(subs'[s].out) = Len(subs[s].out) + 1
                         /\ Last(subs'[s].out).event = "history"
                         /\ Last(subs'[s].out).data.items =
                                [i \in DOMAIN after |->
                                    [id |-> after[i].id, type |-> after[i].type,
                                     data |-> after[i].data]]]_vars

\* a subscription opened without lastSeenId got a history event and then a
\* live event
C19_Witness ==
    \E s \in DOMAIN subs :
        /\ ~Truthy(subs[s].last_event_id)
        /\ Len(subs[s].out) >= 3
        /\ subs[s].out[2].event = "history"
        /\ subs[s].out[3].event \notin {"connected", "history"}

\* C20: the subscriber set of every buffer holds only queues of open
\* subscriptions; a broadcast or complete_job leaves the queue of a
\* subscription that is closed or has ended as it was, and complete_job on
\* a buffer registers a pending teardown whoever disconnected before.
C20_DisconnectedSinkIsGone ==
    /\ [](\A b \in DOMAIN sse_manager.buffers :
             \A q \in sse_manager.buffers[b].subscribers :
                 \E s \in DOMAIN subs : subs[s].queue = q /\ Open(s))
    /\ [][\A j \in JobIds :
             ((\E i \in BroadcastInputs : Broadcast(j, i[1], i[2])) \/ CompleteJob(j))
             => \A s \in DOMAIN subs :
                   ~Open(s) => /\ sse_manager'.queues[subs[s].queue] =
                                      sse_manager.queues[subs[s].queue]
                               /\ sse_manager'.offered[subs[s].queue] =
                                      sse_manager.offered[subs[s].queue]]_vars
    /\ [][\A j \in JobIds :
             (CompleteJob(j) /\ sse_manager._jobs[j] # 0)
             => /\ sse_manager'._cleanup_tasks[j] # 0
                /\ sse_manager'._cleanup_tasks[j] \in PendingTeardowns(sse_manager', j)]_vars

\* a subscriber walked away mid-stream, then the job was completed: the
\* completion event was not offered to it and a teardown is pending
C20_Witness ==
    \E s \in DOMAIN subs :
        /\ subs[s].pc = "closed"
        /\ Len(subs[s].out) >= 2
        /\ sse_manager.buffers[subs[s].buffer].is_complete
        /\ sse_manager._jobs[subs[s].job_id] = subs[s].buffer
        /\ PendingTeardowns(sse_manager, subs[s].job_id) # {}
        /\ \A i \in DOMAIN sse_manager.offered[subs[s].queue] :
              sse_manager.offered[subs[s].queue][i].data # "completed"

\* the references to the audio of steps 0 .. n-1 of a job, in step order
StepFiles(j, n) == [k \in 1..n |-> [job_id |-> j, step |-> k - 1]]

\* C21: audio steps are synthesized one at a time in step order; when a
\* step fails its run ends there, no later step is attempted and audioFiles
\* stays unset; when all succeed audioFiles holds one reference per content
\* step, in step order.
C21_AudioStepsInOrder ==
    /\ [](\A j \in JobIds :
             runs[j].pc = "audio"
             => /\ runs[j].i < runs[j].steps
                /\ runs[j].audio_paths = StepFiles(j, runs[j].i)
                /\ ~job[j].value.audioFiles.some)
    /\ [](\A j \in JobIds :
             (job[j].some /\ job[j].value.audioFiles.some)
             => job[j].value.audioFiles.value = StepFiles(j, job[j].value.content.value))
    /\ [][\A j \in JobIds, e \in AudioErrors :
             AudioStepFails(j, e)
             => /\ runs'[j].pc = "done"
                /\ runs'[j].audio_paths = runs[j].audio_paths
                /\ ~job'[j].value.audioFiles.some]_vars
    /\ [][\A j \in JobIds :
             runs[j].pc = "done"
             => /\ runs'[j] = runs[j]
                /\ job'[j].value.audioFiles = job[j].value.audioFiles]_vars

\* the second of two steps failed after the first was synthesized
C21_Witness ==
    \E j \in JobIds :
        /\ job[j].some
        /\ job[j].value.status = "error"
        /\ runs[j].steps = 2
        /\ runs[j].audio_paths = StepFiles(j, 1)
        /\ ~job[j].value.audioFiles.some

\* every event constructed for a job id, in construction order
EventsOf(j) == [i \in DOMAIN sse_manager.issued[j] |-> sse_manager.issued[j][i].line]

\* C22: every stdout or stderr event of a job is broadcast after the
\* generating_content status event and before any other status event: none
\* before the stage started, none after it returned, failed or timed out.
C22_OutputOnlyDuringContentStage ==
    \A j \in JobIds :
        \A i \in DOMAIN EventsOf(j) :
            EventsOf(j)[i].type \in {"stdout", "stderr"}
            => /\ \E a \in 1..(i - 1) :
                     /\ EventsOf(j)[a].type = "status"
                     /\ EventsOf(j)[a].data = "generating_content"
               /\ \A b \in 1..(i - 1) :
                     EventsOf(j)[b].type = "status"
                         => EventsOf(j)[b].data = "generating_content"

\* both pipes were relayed and the run went on to the audio stage and ended
C22_Witness ==
    \E j \in JobIds :
        /\ \E i \in DOMAIN EventsOf(j) : EventsOf(j)[i].type = "stdout"
        /\ \E i \in DOMAIN EventsOf(j) : EventsOf(j)[i].type = "stderr"
        /\ \E i \in DOMAIN EventsOf(j) : EventsOf(j)[i].data = "generating_audio"
        /\ runs[j].pc = "done"

\* C23: start_phase(status, totalSteps) sets the status, and leaves a
\* snapshot with subProgress 0, currentStep 1 exactly when totalSteps was
\* given and absent otherwise, and the previous log followed by one
\* phase-start entry, cut to the log cap.
C23_StartPhaseFreshSnapshot ==
    [][\A j \in JobIds, st \in Phases, n \in TotalStepArgs :
          StartPhase(j, st, n)
          => LET old == IF HasProgress(j) THEN Progress(j).logs ELSE <<>>
                 p == job'[j].value.progress.value
             IN  /\ job'[j].value.status = st
                 /\ p.subProgress = 0
                 /\ p.totalSteps = n
                 /\ p.currentStep.some <=> n.some
                 /\ p.currentStep.some => p.currentStep.value = 1
                 /\ Last(p.logs).message.kind = "Starting phase"
                 /\ Last(p.logs).message.text = st
                 /\ p.logs = LastN(Append(old, Last(p.logs)), MAX_LOGS)]_vars

\* C24: set_error leaves the job in error with the message and completedAt
\* stamped, and no tracker operation called afterwards starts a phase or
\* moves the status away from error.
C24_ErrorIsFinal ==
    /\ [][\A j \in JobIds :
             SetError(j)
             => /\ job'[j].value.status = "error"
                /\ job'[j].value.error = Some("failed")
                /\ job'[j].value.completedAt = Some(clock)]_vars
    /\ [][\A j \in JobIds :
             (job[j].some /\ job[j].value.status = "error")
             => /\ job'[j].value.status = "error"
                /\ PhaseStarted(job'[j].value) = PhaseStarted(job[j].value)]_vars

\* C25: createdAt, startedAt and completedAt are each assigned at most once
\* and in that order, on the success path and on every failure path.
C25_TimestampsOnceInOrder ==
    /\ [](\A j \in JobIds :
             job[j].some
             => LET jb == job[j].value
                IN  /\ jb.completedAt.some => jb.startedAt.some
                    /\ jb.startedAt.some => jb.createdAt <= jb.startedAt.value
                    /\ jb.completedAt.some
                          => jb.startedAt.value <= jb.completedAt.value)
    /\ [][\A j \in JobIds :
             job[j].some
             => /\ job'[j].some
                /\ job'[j].value.createdAt = job[j].value.createdAt
                /\ job[j].value.startedAt.some
                      => job'[j].value.startedAt = job[j].value.startedAt
                /\ job[j].value.completedAt.some
                      => job'[j].value.completedAt = job[j].value.completedAt]_vars

\* a completed job and its three timestamps, each later than the one before
C25_Witness ==
    \E j \in JobIds :
        /\ job[j].some
        /\ job[j].value.status = "completed"
        /\ job[j].value.createdAt < job[j].value.startedAt.value
        /\ job[j].value.startedAt.value < job[j].value.completedAt.value
        /\ job[j].value.completedAt.some

\* C26: once complete_job has marked a job id complete, every buffer the bus
\* holds for that job id afterwards is complete.
C26_CompleteIsNeverUnset ==
    \A j \in sse_manager.completed :
        sse_manager._jobs[j] # 0
            => sse_manager.buffers[sse_manager._jobs[j]].is_complete

\* the subscription has been handed the completion status event
GotCompletion(s) ==
    \E i \in DOMAIN LiveOut(s) :
        LiveOut(s)[i].type = "status" /\ LiveOut(s)[i].data = "completed"

C28_ResultsWriteOnce ==
    /\ [][\A j \in JobIds :
             job[j].some
             => /\ job[j].value.content.some
                      => job'[j].value.content = job[j].value.content
                /\ job[j].value.audioFiles.some
                      => job'[j].value.audioFiles = job[j].value.audioFiles
                /\ job[j].value.videoPath.some
                      => job'[j].value.videoPath = job[j].value.videoPath]_vars
    /\ [](\A j \in JobIds :
             job[j].some
             => LET jb == job[j].value
                IN  /\ jb.status \in {"pending", "generating_content"}
                          => ~jb.content.some
                    /\ jb.status = "generating_audio"
                          => jb.content.some /\ ~jb.audioFiles.some
                    /\ jb.status = "rendering"
                          => jb.content.some /\ jb.audioFiles.some /\ ~jb.videoPath.some
                    /\ jb.status = "completed"
                          => jb.content.some /\ jb.audioFiles.some /\ jb.videoPath.some
                    /\ jb.audioFiles.some => jb.content.some
                    /\ jb.videoPath.some => jb.audioFiles.some)
    /\ [][\A j \in JobIds :
             /\ (\E e \in ContentErrors : ContentFails(j, e))
                   => ~job'[j].value.content.some
             /\ (\E e \in AudioErrors : AudioStepFails(j, e))
                   => job'[j].value.content.some /\ ~job'[j].value.audioFiles.some
             /\ (\E e \in StageErrors : RenderFails(j, e))
                   => /\ job'[j].value.content.some
                      /\ job'[j].value.audioFiles.some
                      /\ ~job'[j].value.videoPath.some]_vars

\* the render failed: content and audio files are kept, no video path
C28_Witness ==
    \E j \in JobIds :
        /\ job[j].some
        /\ job[j].value.status = "error"
        /\ job[j].value.content.some
        /\ job[j].value.audioFiles.some
        /\ ~job[j].value.videoPath.some

\* the items of the history payloads handed to the subscription
HistoryItemsOf(s) ==
    UNION {{subs[s].out[i].data.items[k] : k \in DOMAIN subs[s].out[i].data.items} :
              i \in {n \in DOMAIN subs[s].out : subs[s].out[n].event = "history"}}

\* C29: no broadcast event reaches one subscription twice: an event in the
\* subscription's history payload is never also yielded to it as a live
\* event.
C29_NoEventDeliveredTwice ==
    \A s \in DOMAIN subs :
        \A i \in DOMAIN LiveOut(s) :
            HistoryItem(LiveOut(s)[i]) \notin HistoryItemsOf(s)

\* C30: at most one teardown timer is live per job id and it is the one
\* recorded in _cleanup_tasks: every scheduled teardown task that has
\* neither fired nor been cancelled is the recorded one.
C30_OnlyRecordedTeardownIsLive ==
    \A j \in JobIds :
        PendingTeardowns(sse_manager, j) \subseteq {sse_manager._cleanup_tasks[j]}

\* the payloads of the status events process_job broadcasts itself for the
\* job: every status event of the job but the one complete_job adds
OrchestratorEvents(m, j) ==
    LET own == SelectSeq(m.issued[j],
                   LAMBDA e : e.line.type = "status" /\ e.line.data # "completed")
    IN  [i \in DOMAIN own |-> own[i].line.data]

PhaseEvents == <<"generating_content", "generating_audio", "rendering">>

\* C31: the status events process_job broadcasts for a job are, in order, a
\* non-empty prefix of (generating_content, generating_audio, rendering)
\* once the run has started on the job, followed by "error" exactly when the
\* run failed; each is broadcast once, and when it is broadcast job.status
\* equals its payload.
C31_OrchestratorStatusEvents ==
    /\ [](\A j \in JobIds :
             LET ev == OrchestratorEvents(sse_manager, j)
                 failed == job[j].some /\ job[j].value.status = "error"
                 n == Len(ev) - (IF failed THEN 1 ELSE 0)
             IN  IF job[j].some /\ job[j].value.startedAt.some
                 THEN /\ n \in 1..Len(PhaseEvents)
                      /\ \A i \in 1..n : ev[i] = PhaseEvents[i]
                      /\ failed => ev[Len(ev)] = "error"
                      /\ job[j].value.status # "completed" => Last(ev) = job[j].value.status
                      /\ job[j].value.status = "completed" => ev = PhaseEvents
                 ELSE ev = <<>>)
    /\ [][\A j \in JobIds :
             LET old == OrchestratorEvents(sse_manager, j)
                 new == OrchestratorEvents(sse_manager', j)
             IN  /\ Len(new) \in {Len(old), Len(old) + 1}
                 /\ SubSeq(new, 1, Len(old)) = old
                 /\ Len(new) > Len(old)
                       => /\ job'[j].some
                          /\ job'[j].value.status = Last(new)
                          /\ job[j].value.status # Last(new)]_vars

\* a run that failed while rendering has broadcast all three phases and then
\* the error
C31_Witness ==
    \E j \in JobIds :
        /\ job[j].some /\ job[j].value.status = "error"
        /\ OrchestratorEvents(sse_manager, j)
               = <<"generating_content", "generating_audio", "rendering", "error">>

====
